---------------------------- MODULE Spec2Model ----------------------------
(***************************************************************************)
(* Model of lib/fathead/python/parse.py: the extraction of reference       *)
(* records from Python documentation pages (PythonData, PythonDataParser), *)
(* the writer of the tab separated output files (PythonDataOutput) and the *)
(* reconciliation of the python2 file against the python3 file (unify).    *)
(*                                                                         *)
(* Text is a sequence of characters.  A fixed piece of a format template   *)
(* ("<br>", "<pre><code>", the base URL, a download path) is one element   *)
(* of such a sequence: no operation of the program looks inside it.        *)
(***************************************************************************)
EXTENDS Integers, Sequences, FiniteSets, TLC

VARIABLES
    pc,                 \* position of the __main__ script
    files,              \* the traversal: the .html files of both versions, in order
    idx,                \* index in files of the file being processed
    HTML,               \* PythonData.HTML of the current file (a parsed node list)
    function_sections,  \* PythonDataParser.function_sections (node indices)
    method_sections,    \* PythonDataParser.method_sections (node indices)
    intro_text,         \* PythonDataParser.intro_text
    title,              \* PythonDataParser.title
    parsed_data,        \* PythonDataParser.parsed_data
    output,             \* the two output files: file name -> text
    err                 \* the exception that ended the run, "" when none

vars == <<pc, files, idx, HTML, function_sections, method_sections,
          intro_text, title, parsed_data, output, err>>

-----------------------------------------------------------------------------
(* Bounds of the model *)

MaxIdLen == 7

MaxOutline == 3

MaxDepth == 3

MaxRecords == 2

MaxRows == 3

MaxFiles == 3

-----------------------------------------------------------------------------
(* Characters and the str methods the program uses *)

TAB == "\t"

NL == "\n"

SP == " "

DOT == "."

PILCROW == "¶"

BACKSLASH == "\\"

Whitespace == {SP, TAB, NL}

\* all sequences over S of length at most n
BoundedSeq(S, n) == UNION {[1..k -> S] : k \in 0..n}

Indices(n) == [i \in 1..n |-> i]

StartsWith(s, old) == Len(s) >= Len(old) /\ SubSeq(s, 1, Len(old)) = old

\* str.replace(old, new): left to right, occurrences do not overlap
RECURSIVE replace(_, _, _)
replace(s, old, new) ==
    IF Len(s) < Len(old) \/ old = <<>> THEN s
    ELSE IF StartsWith(s, old)
         THEN new \o replace(SubSeq(s, Len(old) + 1, Len(s)), old, new)
         ELSE <<Head(s)>> \o replace(Tail(s), old, new)

\* str.rstrip(c)
RECURSIVE rstrip(_, _)
rstrip(s, c) ==
    IF s # <<>> /\ s[Len(s)] = c THEN rstrip(SubSeq(s, 1, Len(s) - 1), c) ELSE s

RECURSIVE lstripWs(_)
lstripWs(s) == IF s # <<>> /\ Head(s) \in Whitespace THEN lstripWs(Tail(s)) ELSE s

RECURSIVE rstripWs(_)
rstripWs(s) ==
    IF s # <<>> /\ s[Len(s)] \in Whitespace
    THEN rstripWs(SubSeq(s, 1, Len(s) - 1)) ELSE s

\* str.strip()
strip(s) == rstripWs(lstripWs(s))

\* str.split(sep) for a one character separator: always at least one part
RECURSIVE split(_, _)
split(s, sep) ==
    IF \A i \in 1..Len(s) : s[i] # sep THEN <<s>>
    ELSE LET k == CHOOSE i \in 1..Len(s) :
                      s[i] = sep /\ \A j \in 1..(i - 1) : s[j] # sep
         IN  <<SubSeq(s, 1, k - 1)>> \o split(SubSeq(s, k + 1, Len(s)), sep)

\* sep.join(parts)
RECURSIVE join(_, _)
join(parts, sep) ==
    IF parts = <<>> THEN <<>>
    ELSE IF Len(parts) = 1 THEN parts[1]
    ELSE parts[1] \o sep \o join(Tail(parts), sep)

RECURSIVE Concat(_)
Concat(ss) == IF ss = <<>> THEN <<>> ELSE Head(ss) \o Concat(Tail(ss))

-----------------------------------------------------------------------------
(* The parsed HTML tree (BeautifulSoup).  A document is the list of its     *)
(* elements in document order; each element has its tag (with its class),  *)
(* its nesting depth (the root is depth 0, the descendants of element i    *)
(* are the elements after i up to the first one that is not deeper than    *)
(* i), its own text and its attribute (the id of a dt, the href of a       *)
(* headerlink): <<>> when the attribute is absent, <<value>> otherwise.    *)

Node(tag, depth, text, attr) ==
    [tag |-> tag, depth |-> depth, text |-> text, attr |-> attr]

DepthOf(doc, i) == IF i = 0 THEN 0 ELSE doc[i].depth

\* j is a descendant of element i (i = 0: the whole document)
IsDescendant(doc, i, j) ==
    /\ j > i
    /\ \A k \in (i + 1)..j : doc[k].depth > DepthOf(doc, i)

\* Tag.find_all(name, {'class': ...}): the matching descendants, document order
find_all(doc, i, tag) ==
    SelectSeq(Indices(Len(doc)),
              LAMBDA j : IsDescendant(doc, i, j) /\ doc[j].tag = tag)

\* Tag.find(name, {'class': ...}): the first matching descendant, 0 for None
find(doc, i, tag) ==
    LET all == find_all(doc, i, tag) IN IF all = <<>> THEN 0 ELSE all[1]

\* Tag.text: the text of the element and of its descendants
TextOf(doc, i) ==
    Concat([k \in 1..Len(doc) |->
              IF k = i \/ IsDescendant(doc, i, k) THEN doc[k].text ELSE <<>>])

-----------------------------------------------------------------------------
(* PythonDataParser *)

PYTHON_DOC_BASE_URL == "https://docs.python.org/3.5"

DOWNLOADED_HTML_PATHS ==
    [python3 |-> "download/python-3.5.2-docs-html",
     python2 |-> "download/python-2.7.12-docs-html"]

\* the whitespace clean-up of a paragraph's text
Normalize(t) ==
    replace(replace(replace(t, <<SP, SP>>, <<SP>>), <<NL>>, <<SP>>),
            <<BACKSLASH, "n">>, <<BACKSLASH, BACKSLASH, "n">>)

\* PythonDataParser.__init__: the function blocks of every section, section
\* after section
SectionBlocks(doc, tag) ==
    LET sections == find_all(doc, 0, "div.section")
    IN  Concat([s \in 1..Len(sections) |-> find_all(doc, sections[s], tag)])

\* PythonDataParser.__init__: the text of the first two paragraphs
IntroText(doc) ==
    LET intro == find_all(doc, 0, "p")
        two == SubSeq(intro, 1, IF Len(intro) < 2 THEN Len(intro) ELSE 2)
    IN  Concat([k \in 1..Len(two) |-> Normalize(TextOf(doc, two[k]))])

\* PythonDataParser.__init__: the text of the first internal reference
TitleOf(doc) ==
    LET t == find(doc, 0, "a.reference internal")
    IN  IF t # 0 THEN TextOf(doc, t) ELSE <<>>

parse_for_module_name(doc, section) ==
    LET module_name == find(doc, section, "code.descclassname")
    IN  IF module_name # 0 THEN rstrip(TextOf(doc, module_name), DOT) ELSE <<>>

parse_for_function_name(doc, section) ==
    LET function_name == find(doc, section, "code.descname")
    IN  IF function_name # 0 THEN TextOf(doc, function_name) ELSE <<>>

parse_for_first_paragraph(doc, section) ==
    LET paragraphs == find_all(doc, section, "p")
        withText == SelectSeq(paragraphs, LAMBDA p : TextOf(doc, p) # <<>>)
    IN  IF withText # <<>> THEN Normalize(TextOf(doc, withText[1])) ELSE <<>>

\* a_tag['href'] raises KeyError when the headerlink has no href
AnchorRaises(doc, section) ==
    LET a_tag == find(doc, section, "a.headerlink")
    IN  a_tag # 0 /\ doc[a_tag].attr = <<>>

parse_for_anchor(doc, section) ==
    LET a_tag == find(doc, section, "a.headerlink")
    IN  IF a_tag # 0 /\ doc[a_tag].attr # <<>> THEN doc[a_tag].attr[1] ELSE <<>>

parse_for_method_signature(doc, section) ==
    LET dt == find(doc, section, "dt")
    IN  IF dt # 0
        THEN <<"<pre><code>">>
             \o replace(replace(replace(TextOf(doc, dt), <<PILCROW>>, <<>>),
                                <<NL>>, <<>>),
                        <<BACKSLASH, "n">>, <<BACKSLASH, BACKSLASH, "n">>)
             \o <<"</code></pre>">>
        ELSE <<>>

\* section.find('dt').get('id') raises AttributeError when there is no dt
ClassMethodRaises(doc, section) == find(doc, section, "dt") = 0

\* parse_for_class_method that keeps the third part alone as the method name
\* and drops the parts after it
parse_for_class_method_DropExtra(doc, section) ==
    LET dt == find(doc, section, "dt")
        id_tag == IF dt # 0 /\ doc[dt].attr # <<>> THEN doc[dt].attr[1] ELSE <<>>
        tag_parts == split(id_tag, DOT)
    IN  IF id_tag # <<>> /\ Len(tag_parts) >= 3
        THEN <<tag_parts[1], tag_parts[2], tag_parts[3]>>
        ELSE <<<<>>, <<>>, <<>>>>

\* the parts of the dt's id: (module, class, method), three empty strings
\* when the id is absent, empty or has fewer than three parts
parse_for_class_method(doc, section) ==
    LET dt == find(doc, section, "dt")
        id_tag == IF dt # 0 /\ doc[dt].attr # <<>> THEN doc[dt].attr[1] ELSE <<>>
        tag_parts == split(id_tag, DOT)
    IN  IF id_tag # <<>> /\ Len(tag_parts) = 3 THEN tag_parts
        ELSE IF id_tag # <<>> /\ Len(tag_parts) > 3
             THEN <<tag_parts[1], tag_parts[2],
                    join(SubSeq(tag_parts, 3, Len(tag_parts)), <<DOT>>)>>
             ELSE <<<<>>, <<>>, <<>>>>

\* file_being_used.replace(download_path, '') formatted into the base URL
create_url(file, download_path, anchor) ==
    <<PYTHON_DOC_BASE_URL>> \o replace(file, <<download_path>>, <<>>) \o anchor

Record(module, function, method_signature, first_paragraph, url) ==
    [module |-> module, function |-> function,
     method_signature |-> method_signature,
     first_paragraph |-> first_paragraph, url |-> url]

\* parse_for_data, the module-level record
IntroRecords(file, download_path, intro, ttl) ==
    IF intro # <<>> /\ ttl # <<>>
    THEN <<Record(ttl, <<>>, <<>>, intro, create_url(file, download_path, <<>>))>>
    ELSE <<>>

\* the body of the loop over function_sections without its test of module
\* and function
FunctionRecord_NoGuard(doc, file, download_path, section) ==
    <<Record(parse_for_module_name(doc, section),
             parse_for_function_name(doc, section),
             parse_for_method_signature(doc, section),
             parse_for_first_paragraph(doc, section),
             create_url(file, download_path, parse_for_anchor(doc, section)))>>

\* parse_for_data, the body of the loop over function_sections
FunctionRecord(doc, file, download_path, section) ==
    LET module == parse_for_module_name(doc, section)
        function == parse_for_function_name(doc, section)
    IN  IF module # <<>> \/ function # <<>>
        THEN <<Record(module, function,
                      parse_for_method_signature(doc, section),
                      parse_for_first_paragraph(doc, section),
                      create_url(file, download_path,
                                 parse_for_anchor(doc, section)))>>
        ELSE <<>>

FunctionBlockRaises(doc, section) ==
    /\ parse_for_module_name(doc, section) # <<>>
         \/ parse_for_function_name(doc, section) # <<>>
    /\ AnchorRaises(doc, section)

\* parse_for_data, the body of the loop over method_sections
MethodRecord(doc, file, download_path, section) ==
    LET cm == parse_for_class_method(doc, section)
        module == cm[1]
        class_name == cm[2]
        method == cm[3]
    IN  IF method # <<>>
        THEN <<Record(module, class_name \o <<DOT>> \o method,
                      parse_for_method_signature(doc, section),
                      parse_for_first_paragraph(doc, section),
                      create_url(file, download_path,
                                 <<"#">> \o join(<<module, class_name, method>>,
                                                 <<DOT>>)))>>
        ELSE <<>>

\* the exception parse_for_data ends with, "" when it completes
ParseError(doc, fsections, msections) ==
    IF \E k \in 1..Len(fsections) : FunctionBlockRaises(doc, fsections[k])
    THEN "KeyError"
    ELSE IF \E k \in 1..Len(msections) : ClassMethodRaises(doc, msections[k])
         THEN "AttributeError"
         ELSE ""

\* the list parse_for_data builds when it completes
ParsedData(doc, file, download_path, fsections, msections, intro, ttl) ==
    IntroRecords(file, download_path, intro, ttl)
    \o Concat([k \in 1..Len(fsections) |->
                 FunctionRecord(doc, file, download_path, fsections[k])])
    \o Concat([k \in 1..Len(msections) |->
                 MethodRecord(doc, file, download_path, msections[k])])

-----------------------------------------------------------------------------
(* PythonDataOutput *)

OutputFiles == {"output.txt", "output_py2.txt"}

\* PythonDataOutput.__init__
OutputOf(version) == IF version = "python2" THEN "output_py2.txt" ELSE "output.txt"

\* create_names_from_data with the dot put between module and function even
\* when one of them is empty
create_names_from_data_AlwaysDot(data_element) ==
    <<strip(data_element.module \o <<DOT>> \o data_element.function),
      strip(data_element.module \o <<SP>> \o data_element.function)>>

\* <<name, redirect>>: the dotted and the spaced name, both stripped
create_names_from_data(data_element) ==
    LET module == data_element.module
        function == data_element.function
        dotted_name == module
                       \o (IF module # <<>> /\ function # <<>> THEN <<DOT>> ELSE <<>>)
                       \o function
        spaced_name == module \o <<SP>> \o function
    IN  <<strip(dotted_name), strip(spaced_name)>>

\* '{}\n'.format('\t'.join(list_of_data))
Line(list_of_data) == join(list_of_data, <<TAB>>) \o <<NL>>

ArticleRow(name, abstract, url) ==
    <<name, <<"A">>, <<>>, <<>>, <<>>, <<>>, <<>>, <<>>,
      <<"https://docs.python.org">>, <<>>, <<>>, abstract, url>>

RedirectRow(redirect, name) ==
    <<redirect, <<"R">>, name, <<>>, <<>>, <<>>, <<>>, <<>>,
      <<>>, <<>>, <<>>, <<>>, <<>>>>

AbstractOf(data_element) ==
    data_element.method_signature
    \o (IF data_element.method_signature # <<>> /\ data_element.first_paragraph # <<>>
        THEN <<"<br>">> ELSE <<>>)
    \o data_element.first_paragraph

\* create_file, the body of the loop: the rows written for one record
RowsOf(data_element) ==
    IF data_element.module # <<>> \/ data_element.function # <<>>
    THEN LET names == create_names_from_data(data_element)
             name == names[1]
             redirect == names[2]
         IN  <<ArticleRow(name, AbstractOf(data_element), data_element.url)>>
             \o (IF redirect # name THEN <<RedirectRow(redirect, name)>> ELSE <<>>)
    ELSE <<>>

\* the text of a list of rows, one line each
TextOfRows(rows) == Concat([k \in 1..Len(rows) |-> Line(rows[k])])

\* create_file: the text appended for the list of records
Written(data) == TextOfRows(Concat([k \in 1..Len(data) |-> RowsOf(data[k])]))

-----------------------------------------------------------------------------
(* unify, with the petl operations it chains *)

\* the lines of a text: the pieces that end with a line break, then the rest
TextLines(text) ==
    LET pieces == split(text, NL)
    IN  IF pieces[Len(pieces)] = <<>> THEN SubSeq(pieces, 1, Len(pieces) - 1)
        ELSE pieces

\* petl.fromtsv: the rows of the file, the first of them taken as the header
fromtsv(text) ==
    LET lines == TextLines(text)
    IN  [k \in 1..Len(lines) |->
           IF lines[k] = <<>> THEN <<>> ELSE split(lines[k], TAB)]

\* petl.setheader replaces the header row: the first row of the file is lost
setheader(table) == IF table = <<>> THEN <<>> ELSE Tail(table)

\* the order of the characters (their code points)
Alphabet == <<TAB, NL, SP, "#", DOT, "A", "B", "a", "b", "f", "o", "s", "x", "y">>

CharRank(c) ==
    IF \E i \in 1..Len(Alphabet) : Alphabet[i] = c
    THEN CHOOSE i \in 1..Len(Alphabet) : Alphabet[i] = c
    ELSE Len(Alphabet) + 1

\* s < t as Python compares str
RECURSIVE StrLess(_, _)
StrLess(s, t) ==
    IF t = <<>> THEN FALSE
    ELSE IF s = <<>> THEN TRUE
    ELSE IF Head(s) = Head(t) THEN StrLess(Tail(s), Tail(t))
    ELSE CharRank(Head(s)) < CharRank(Head(t))

NameOf(row) == row[1]

\* the place of row in an already sorted list: after the rows not greater
RECURSIVE InsertSorted(_, _)
InsertSorted(sorted, row) ==
    IF sorted = <<>> THEN <<row>>
    ELSE IF StrLess(NameOf(row), NameOf(Head(sorted)))
         THEN <<row>> \o sorted
         ELSE <<Head(sorted)>> \o InsertSorted(Tail(sorted), row)

\* petl.sort(key='name'): a stable sort
RECURSIVE sort(_)
sort(table) ==
    IF table = <<>> THEN <<>>
    ELSE InsertSorted(sort(SubSeq(table, 1, Len(table) - 1)), table[Len(table)])

\* petl.unique(key='name') on the sorted table: the rows whose name no
\* neighbour shares, so every row of a duplicated name is dropped
unique(table) ==
    LET kept == SelectSeq(Indices(Len(table)),
                   LAMBDA k :
                     /\ k > 1 => NameOf(table[k - 1]) # NameOf(table[k])
                     /\ k < Len(table) => NameOf(table[k + 1]) # NameOf(table[k]))
    IN  [i \in 1..Len(kept) |-> table[kept[i]]]

\* fromtsv(...).setheader(header).sort(key='name').unique(key='name'): the
\* rows that .lookup('name') keys, in the order of the keys
KeyedTable(text) == unique(sort(setheader(fromtsv(text))))

HasKey(table, k) == \E i \in 1..Len(table) : NameOf(table[i]) = k

\* table[k][0] for a key k of the table
Lookup(table, k) == table[CHOOSE i \in 1..Len(table) : NameOf(table[i]) = k]

\* the python3 rows unify keeps: v[0] of every key of table3 that table2
\* holds with another abstract (index 11 of the row)
new_table2(table2, table3) ==
    SelectSeq(table3,
              LAMBDA v : /\ HasKey(table2, NameOf(v))
                         /\ v[12] # Lookup(table2, NameOf(v))[12])

\* a row without a name stops the sort, a compared row without an abstract
\* stops the loop: both are an IndexError
UnifyError(text2, text3) ==
    IF \E t \in {text2, text3} :
          \E r \in {setheader(fromtsv(t))[k] : k \in 1..Len(setheader(fromtsv(t)))} :
             r = <<>>
    THEN "IndexError"
    ELSE LET table2 == KeyedTable(text2)
             table3 == KeyedTable(text3)
         IN  IF \E k \in 1..Len(table3) :
                   /\ HasKey(table2, NameOf(table3[k]))
                   /\ \/ Len(table3[k]) < 12
                      \/ Len(Lookup(table2, NameOf(table3[k]))) < 12
             THEN "IndexError"
             ELSE ""

\* the text unify writes to output_py2.txt
Unified(text2, text3) ==
    TextOfRows(new_table2(KeyedTable(text2), KeyedTable(text3)))

-----------------------------------------------------------------------------
(* The __main__ script *)

CurrentFile == files[idx]

DownloadPath == DOWNLOADED_HTML_PATHS[CurrentFile.version]

\* the loop goes on with the next file, or leaves for unify()
Advance ==
    IF idx < Len(files)
    THEN idx' = idx + 1 /\ pc' = "load"
    ELSE idx' = idx /\ pc' = "unify"

\* pre_parse(): both output files are removed
PreParse ==
    /\ pc = "pre_parse"
    /\ output' = [f \in OutputFiles |-> <<>>]
    /\ idx' = 1
    /\ pc' = "load"
    /\ UNCHANGED <<files, HTML, function_sections, method_sections,
                   intro_text, title, parsed_data, err>>

\* PythonData(file_path): load_data reads the file, or open() raises
LoadData ==
    /\ pc = "load"
    /\ IF CurrentFile.readable
       THEN /\ HTML' = CurrentFile.html
            /\ pc' = "parser_init"
            /\ err' = err
       ELSE /\ HTML' = HTML
            /\ pc' = "aborted"
            /\ err' = "IOError"
    /\ UNCHANGED <<files, idx, function_sections, method_sections,
                   intro_text, title, parsed_data, output>>

\* PythonDataParser(data, download_path)
ParserInit ==
    /\ pc = "parser_init"
    /\ function_sections' = SectionBlocks(HTML, "dl.function")
    /\ method_sections' = SectionBlocks(HTML, "dl.method")
    /\ intro_text' = IntroText(HTML)
    /\ title' = TitleOf(HTML)
    /\ parsed_data' = <<>>
    /\ pc' = "parse_for_data"
    /\ UNCHANGED <<files, idx, HTML, output, err>>

\* parser.parse_for_data()
ParseForData ==
    /\ pc = "parse_for_data"
    /\ LET e == ParseError(HTML, function_sections, method_sections)
       IN  IF e = ""
           THEN /\ parsed_data' = ParsedData(HTML, CurrentFile.path, DownloadPath,
                                             function_sections, method_sections,
                                             intro_text, title)
                /\ pc' = "create_file"
                /\ err' = err
           ELSE /\ parsed_data' = parsed_data
                /\ pc' = "aborted"
                /\ err' = e
    /\ UNCHANGED <<files, idx, HTML, function_sections, method_sections,
                   intro_text, title, output>>

\* PythonDataOutput(parser.get_data(), version).create_file()
CreateFile ==
    /\ pc = "create_file"
    /\ output' = [output EXCEPT ![OutputOf(CurrentFile.version)] =
                                    @ \o Written(parsed_data)]
    /\ Advance
    /\ UNCHANGED <<files, HTML, function_sections, method_sections,
                   intro_text, title, parsed_data, err>>

\* unify()
Unify ==
    /\ pc = "unify"
    /\ LET e == UnifyError(output["output_py2.txt"], output["output.txt"])
       IN  IF e = ""
           THEN /\ output' = [output EXCEPT !["output_py2.txt"] =
                                Unified(output["output_py2.txt"], output["output.txt"])]
                /\ pc' = "done"
                /\ err' = err
           ELSE /\ output' = output
                /\ pc' = "aborted"
                /\ err' = e
    /\ UNCHANGED <<files, idx, HTML, function_sections, method_sections,
                   intro_text, title, parsed_data>>

-----------------------------------------------------------------------------
(* The documents, records and files the specifications start from *)

Optional(S) == {<<>>} \cup {<<x>> : x \in S}

FilePath(version, name) == <<DOWNLOADED_HTML_PATHS[version], name>>

File(version, readable, html) ==
    [version |-> version, path |-> FilePath(version, "/library/os.html"),
     readable |-> readable, html |-> html]

\* the ids of a dt: every text of dots and letters up to MaxIdLen characters
Ids == BoundedSeq({"a", DOT}, MaxIdLen)

Section == Node("div.section", 1, <<>>, <<>>)

\* a page with one function block in a section: each element the parser
\* looks for is absent, empty or filled
FunctionDocuments ==
    {a \o <<Section, Node("dl.function", 2, <<>>, <<>>)>> \o dt \o cls \o nm \o hl \o ps :
       a \in Optional({Node("a.reference internal", 1, t, <<>>) :
                         t \in {<<>>, <<"o", "s">>}}),
       dt \in Optional({Node("dt", 3, <<"f", "(", NL, ")", PILCROW>>, <<>>)}),
       cls \in Optional({Node("code.descclassname", 3, t, <<>>) :
                           t \in {<<>>, <<DOT>>, <<"o", DOT>>}}),
       nm \in Optional({Node("code.descname", 3, t, <<>>) : t \in {<<>>, <<"f">>}}),
       hl \in Optional({Node("a.headerlink", 3, <<PILCROW>>, h) :
                          h \in Optional({<<"#", "f">>})}),
       ps \in {<<>>,
               <<Node("p", 3, <<>>, <<>>)>>,
               <<Node("p", 3, <<"x", SP, SP, "y", NL>>, <<>>)>>,
               <<Node("p", 3, <<>>, <<>>), Node("p", 3, <<"x">>, <<>>)>>}}

\* a page with one method block in a section: the dt is absent, or has no
\* id, or any id of Ids
MethodDocuments ==
    {<<Section, Node("dl.method", 2, <<>>, <<>>)>> \o dt \o ps :
       dt \in Optional({Node("dt", 3, <<"m", "(", ")">>, id) : id \in Optional(Ids)}),
       ps \in Optional({Node("p", 3, <<"x">>, <<>>)})}

\* the nesting depths of an outline: the first element is at depth 1, each
\* next one at most one deeper than the one before it
Outlines ==
    {o \in BoundedSeq({"div.section", "dl.function", "dl.method"} \X (1..MaxDepth),
                      MaxOutline) :
       /\ o # <<>> => o[1][2] = 1
       /\ \A k \in 2..Len(o) : o[k][2] <= o[k - 1][2] + 1}

\* the elements of one entry of an outline: a section, or a block with its
\* name (function) or its dt (method)
Expand(entry) ==
    IF entry[1] = "div.section" THEN <<Node("div.section", entry[2], <<>>, <<>>)>>
    ELSE IF entry[1] = "dl.function"
         THEN <<Node("dl.function", entry[2], <<>>, <<>>),
                Node("code.descname", entry[2] + 1, <<"f">>, <<>>)>>
         ELSE <<Node("dl.method", entry[2], <<>>, <<>>),
                Node("dt", entry[2] + 1, <<"m">>, <<<<"a", DOT, "b", DOT, "a">>>>)>>

\* pages of sections and blocks nested in every way the bounds allow
OutlineDocuments == {Concat([k \in 1..Len(o) |-> Expand(o[k])]) : o \in Outlines}

Documents == FunctionDocuments \cup MethodDocuments \cup OutlineDocuments

\* the records create_file is given: names with and without white space,
\* abstracts with and without a tab
Records ==
    {Record(m, f, sp[1], sp[2], <<PYTHON_DOC_BASE_URL, "/library/os.html">>) :
       m \in {<<>>, <<"o">>, <<"o", SP>>, <<TAB>>},
       f \in {<<>>, <<"f">>, <<SP, "f">>},
       sp \in {<< <<>>, <<>> >>,
               << <<"<pre><code>", "f", "</code></pre>">>, <<>> >>,
               << <<"<pre><code>", "f", "</code></pre>">>, <<"x", TAB, "y">> >>}}

\* the rows of an output file as create_file writes them
Rows ==
    {ArticleRow(n, a, <<PYTHON_DOC_BASE_URL, "/library/os.html">>) :
       n \in {<<"a">>, <<"b">>}, a \in {<<"x">>, <<"y">>}}
    \cup {RedirectRow(<<"a", SP, "b">>, <<"a", DOT, "b">>)}

\* three pages of the documentation: os.f described in two ways, and a method
Page(paragraph) ==
    <<Node("a.reference internal", 1, <<"o", "s">>, <<>>),
      Node("p", 1, <<"o", "s">>, <<>>),
      Section,
      Node("dl.function", 2, <<>>, <<>>),
      Node("dt", 3, <<>>, <<>>),
      Node("code.descclassname", 4, <<"o", "s", DOT>>, <<>>),
      Node("code.descname", 4, <<"f">>, <<>>),
      Node("p", 3, paragraph, <<>>)>>

MethodPage ==
    <<Section,
      Node("dl.method", 2, <<>>, <<>>),
      Node("dt", 3, <<"f">>, <<<<"o", DOT, "b", DOT, "f">>>>)>>

Pages == {Page(<<"x">>), Page(<<"y">>), MethodPage}

\* the traversals: the files of python3, then those of python2, at least one
\* of each, every file readable or not
Traversals ==
    {t \in BoundedSeq({File(v, r, h) : v \in {"python3", "python2"},
                                       r \in BOOLEAN, h \in Pages}, MaxFiles) :
       /\ \E k \in 1..Len(t) : t[k].version = "python3"
       /\ \E k \in 1..Len(t) : t[k].version = "python2"
       /\ \A j, k \in 1..Len(t) :
            j < k => ~(t[j].version = "python2" /\ t[k].version = "python3")}

StaleText == TextOfRows(<<ArticleRow(<<"a">>, <<"x">>, <<>>)>>)

-----------------------------------------------------------------------------
(* Specifications *)

\* the whole run of the script
Init ==
    /\ pc = "pre_parse"
    /\ files \in Traversals
    /\ idx = 0
    /\ HTML = <<>>
    /\ function_sections = <<>>
    /\ method_sections = <<>>
    /\ intro_text = <<>>
    /\ title = <<>>
    /\ parsed_data = <<>>
    /\ output \in [OutputFiles -> {<<>>, StaleText}]
    /\ err = ""

Next == PreParse \/ LoadData \/ ParserInit \/ ParseForData \/ CreateFile \/ Unify

Spec == Init /\ [][Next]_vars

\* the parser on one loaded document
InitParse ==
    /\ pc = "parser_init"
    /\ HTML \in Documents
    /\ files = <<File("python3", TRUE, HTML)>>
    /\ idx = 1
    /\ function_sections = <<>>
    /\ method_sections = <<>>
    /\ intro_text = <<>>
    /\ title = <<>>
    /\ parsed_data = <<>>
    /\ output = [f \in OutputFiles |-> <<>>]
    /\ err = ""

NextParse == ParserInit \/ ParseForData

SpecParse == InitParse /\ [][NextParse]_vars

\* the writer on one list of records
InitOutput ==
    /\ pc = "create_file"
    /\ parsed_data \in BoundedSeq(Records, MaxRecords)
    /\ \E v \in {"python3", "python2"} : files = <<File(v, TRUE, <<>>)>>
    /\ idx = 1
    /\ HTML = <<>>
    /\ function_sections = <<>>
    /\ method_sections = <<>>
    /\ intro_text = <<>>
    /\ title = <<>>
    /\ output = [f \in OutputFiles |-> <<>>]
    /\ err = ""

NextOutput == CreateFile

SpecOutput == InitOutput /\ [][NextOutput]_vars

\* unify on two written files
InitUnify ==
    /\ pc = "unify"
    /\ \E older, newer \in BoundedSeq(Rows, MaxRows) :
          output = [f \in OutputFiles |->
                      IF f = "output_py2.txt" THEN TextOfRows(older)
                      ELSE TextOfRows(newer)]
    /\ files = <<File("python2", TRUE, <<>>)>>
    /\ idx = 1
    /\ HTML = <<>>
    /\ function_sections = <<>>
    /\ method_sections = <<>>
    /\ intro_text = <<>>
    /\ title = <<>>
    /\ parsed_data = <<>>
    /\ err = ""

NextUnify == Unify

SpecUnify == InitUnify /\ [][NextUnify]_vars

-----------------------------------------------------------------------------
(* Claims about PythonDataOutput.create_file (SpecOutput) *)

\* the names as the specification of the writer states them
DottedName(r) ==
    strip(IF r.module # <<>> /\ r.function # <<>>
          THEN r.module \o <<DOT>> \o r.function
          ELSE IF r.module # <<>> THEN r.module ELSE r.function)

SpacedName(r) == strip(r.module \o <<SP>> \o r.function)

\* the lines the specification of the writer asks for one record
ExpectedLines(r) ==
    IF r.module = <<>> /\ r.function = <<>> THEN <<>>
    ELSE Line(<<DottedName(r), <<"A">>, <<>>, <<>>, <<>>, <<>>, <<>>, <<>>,
                <<"https://docs.python.org">>, <<>>, <<>>, AbstractOf(r), r.url>>)
         \o (IF SpacedName(r) # DottedName(r)
             THEN Line(<<SpacedName(r), <<"R">>, DottedName(r), <<>>, <<>>, <<>>,
                         <<>>, <<>>, <<>>, <<>>, <<>>, <<>>, <<>>>>)
             ELSE <<>>)

FileWritten == pc # "create_file"

\* C7: once create_file has run, the file of the version holds, record after
\* record, one A line named by the dotted name, directly followed by one R
\* line from the spaced name to the dotted name exactly when the two names
\* differ, and nothing for a record whose module and function are both
\* empty; the file of the other version is untouched.
C7_RowsOfEveryRecord ==
    FileWritten =>
      /\ output[OutputOf(CurrentFile.version)] =
           Concat([k \in 1..Len(parsed_data) |-> ExpectedLines(parsed_data[k])])
      /\ \A f \in OutputFiles \ {OutputOf(CurrentFile.version)} : output[f] = <<>>

\* a written list holding a record with module and function, whose spaced
\* name differs, and a record with the module alone, whose names agree
C7_Witness ==
    /\ FileWritten
    /\ \E k \in 1..Len(parsed_data) :
         /\ parsed_data[k].module # <<>> /\ parsed_data[k].function # <<>>
         /\ SpacedName(parsed_data[k]) # DottedName(parsed_data[k])
    /\ \E k \in 1..Len(parsed_data) :
         /\ parsed_data[k].module # <<>> /\ parsed_data[k].function = <<>>
         /\ SpacedName(parsed_data[k]) = DottedName(parsed_data[k])
    /\ output[OutputOf(CurrentFile.version)] # <<>>

\* C9: every line of both output files has exactly 13 tab separated fields,
\* the second of them A or R.
C9_ThirteenFields ==
    \A f \in OutputFiles :
       LET rows == fromtsv(output[f])
       IN  \A k \in 1..Len(rows) :
              /\ Len(rows[k]) = 13
              /\ rows[k][2] \in {<<"A">>, <<"R">>}

-----------------------------------------------------------------------------
(* Claims about PythonDataParser (SpecParse) *)

Parsed == pc = "create_file"

\* the number of module-level records, and of records of function blocks,
\* at the head of parsed_data
NumIntro == Len(IntroRecords(CurrentFile.path, DownloadPath, intro_text, title))

NumFunction ==
    Len(Concat([k \in 1..Len(function_sections) |->
                  FunctionRecord(HTML, CurrentFile.path, DownloadPath,
                                 function_sections[k])]))

\* C5 as stated: every record has a module or a function, and only the
\* module-level record, the first of the list, has an empty function.
C5_OnlyIntroHasEmptyFunction ==
    Parsed =>
      \A i \in 1..Len(parsed_data) :
         /\ parsed_data[i].module # <<>> \/ parsed_data[i].function # <<>>
         /\ parsed_data[i].function = <<>> => (i = 1 /\ NumIntro = 1)

\* C5 as amended: every record has a module or a function; no record of a
\* method block has an empty function; a record with an empty function is
\* the module-level record or the record of a function block that has a
\* module name and no (or an empty) name element.
C5_EmptyFunctionOnlyIntroOrUnnamedBlock ==
    Parsed =>
      \A i \in 1..Len(parsed_data) :
         /\ parsed_data[i].module # <<>> \/ parsed_data[i].function # <<>>
         /\ i > NumIntro + NumFunction => parsed_data[i].function # <<>>
         /\ parsed_data[i].function = <<>> =>
              \/ i = 1 /\ NumIntro = 1 /\ parsed_data[i].module = title
              \/ /\ NumIntro < i
                 /\ \E k \in 1..Len(function_sections) :
                      /\ parse_for_function_name(HTML, function_sections[k]) = <<>>
                      /\ parse_for_module_name(HTML, function_sections[k])
                           = parsed_data[i].module

\* the record of a function block that has a module name and no name
C5_Witness ==
    /\ Parsed
    /\ \E i \in 1..Len(parsed_data) :
         /\ NumIntro < i /\ i <= NumIntro + NumFunction
         /\ parsed_data[i].function = <<>>
         /\ parsed_data[i].module # <<>>

\* the parts of the id of the block's dt, none when there is no id
IdParts(doc, section) ==
    LET dt == find(doc, section, "dt")
    IN  IF dt = 0 \/ doc[dt].attr = <<>> THEN <<>> ELSE split(doc[dt].attr[1], DOT)

\* module and function of the record C6 asks of a method block
ExpectedMethod(doc, section) ==
    LET parts == IdParts(doc, section)
    IN  IF Len(parts) >= 3
        THEN << <<parts[1],
                  parts[2] \o <<DOT>> \o join(SubSeq(parts, 3, Len(parts)), <<DOT>>)>> >>
        ELSE <<>>

ExpectedNamedMethod(doc, section) ==
    LET parts == IdParts(doc, section)
    IN  IF Len(parts) > 3 \/ (Len(parts) = 3 /\ parts[3] # <<>>)
        THEN ExpectedMethod(doc, section)
        ELSE <<>>

C8_ExtractionNeverRaises == pc # "aborted"

InSection(doc, j) ==
    \E s \in 1..Len(doc) : doc[s].tag = "div.section" /\ IsDescendant(doc, s, j)

\* the blocks of the tag that lie in a section, each once, document order
BlocksInSections(doc, tag) ==
    SelectSeq(find_all(doc, 0, tag), LAMBDA j : InSection(doc, j))

\* C10: once the parser is built, function_sections and method_sections hold
\* the function (method) blocks that lie in a section, each once and in
\* document order.
C10_BlocksOnceInDocumentOrder ==
    pc # "parser_init" =>
      /\ function_sections = BlocksInSections(HTML, "dl.function")
      /\ method_sections = BlocksInSections(HTML, "dl.method")

-----------------------------------------------------------------------------
(* Claims about unify (SpecUnify) and about the run (Spec) *)

NamesIn(rows) == {NameOf(rows[k]) : k \in 1..Len(rows)}

\* the first row of the name in the stable order by name: its first row
FirstRow(rows, n) ==
    rows[CHOOSE i \in 1..Len(rows) :
            NameOf(rows[i]) = n /\ \A j \in 1..(i - 1) : NameOf(rows[j]) # n]

\* the names of both datasets whose abstracts differ
DifferingNames(older, newer) ==
    {n \in NamesIn(older) \cap NamesIn(newer) :
       FirstRow(older, n)[12] # FirstRow(newer, n)[12]}

UnifyStep == pc = "unify" /\ pc' = "done"

\* C1: unify leaves in output_py2.txt exactly the names that occur in both
\* files with differing abstracts.
C1_ExactlyTheDifferingNames ==
    [][UnifyStep =>
         NamesIn(fromtsv(output'["output_py2.txt"]))
           = DifferingNames(fromtsv(output["output_py2.txt"]),
                            fromtsv(output["output.txt"]))]_vars

\* C2: every row unify writes to output_py2.txt is the row the older
\* dataset, output_py2.txt before the call, had for that name.
C2_RetainedRowIsTheOlderRow ==
    [][UnifyStep =>
         LET written == fromtsv(output'["output_py2.txt"])
             older == fromtsv(output["output_py2.txt"])
         IN  \A k \in 1..Len(written) :
                /\ NameOf(written[k]) \in NamesIn(older)
                /\ written[k] = FirstRow(older, NameOf(written[k]))]_vars

\* C3: sort by name then unique on name keeps, for every name of the
\* table, exactly one row, the first row of that name.
C3_DedupKeepsFirstRowOfEveryName ==
    pc = "unify" =>
      \A f \in OutputFiles :
         LET table == setheader(fromtsv(output[f]))
             keyed == unique(sort(table))
         IN  /\ NamesIn(keyed) = NamesIn(table)
             /\ \A n \in NamesIn(table) :
                  /\ Cardinality({k \in 1..Len(keyed) : NameOf(keyed[k]) = n}) = 1
                  /\ Lookup(keyed, n) = FirstRow(table, n)

\* C4: a document that cannot be read does not end the run.
C4_UnreadableDocumentIsSkipped == ~(pc = "aborted" /\ err = "IOError")

=============================================================================
